---- MODULE Spec2Model ----
(***************************************************************************)
(* A model of the social media uploader (src/social_media_uploader_js.js): *)
(* the sliding-window RateLimiter, the retry driver uploadWithRetry, the   *)
(* batch loop uploadClips, the UploadScheduler with its periodic tick and   *)
(* the Analytics recorder.                                                 *)
(*                                                                         *)
(* Each component has its own specification (SpecRL, SpecRetry, SpecBatch, *)
(* SpecSched, SpecAnalytics); the variables of the components a            *)
(* specification does not exercise stay at their idle values.  Time is in  *)
(* milliseconds.                                                           *)
(***************************************************************************)
EXTENDS Integers, Sequences, FiniteSets, TLC

VARIABLES
    now,          \* the wall clock (Date.now())
    \* ---- RateLimiter (one instance, one sequential caller)
    maxRequests,  \* this.maxRequests
    windowMs,     \* this.windowMs
    requests,     \* this.requests, the array of stored timestamps
    rlPc,         \* "idle" | "sleeping": position of the caller in checkLimit
    rlNow,        \* the local `now` captured at the start of checkLimit
    rlWake,       \* the clock value at which the pending sleep(waitTime) ends
    rlWait,       \* the waitTime last passed to sleep (0: never slept)
    acquired,     \* the clock values at which checkLimit() calls returned
    \* ---- PlatformUploader.uploadWithRetry (one call)
    maxRetries,   \* the maxRetries argument
    attempt,      \* the loop variable
    lastError,    \* the message of lastError, or NoError while it is null
    rtPc,         \* "loop" | "limit" | "invoke" | "upload" | "backoff" | "done"
    acqCount,     \* checkLimit() calls that have returned
    upStarted,    \* this.upload(clip) invocations started
    callLog,      \* what each finished upload invocation did, in order
    delays,       \* the durations passed to sleep() by the backoff, in order
    rtResult,     \* the UploadResult returned, or NoResult
    platformName, \* this.platformName of the uploader
    credsValid,   \* whether the configured credentials let authenticate() succeed
    authenticated,\* this.authenticated
    authCalls,    \* authenticate() calls made
    \* ---- SocialMediaUploader.uploadClips (one call)
    cfgPlatforms, \* CONFIG.PLATFORMS_TO_UPLOAD
    cfgStagger,   \* CONFIG.STAGGER_UPLOADS
    clips,        \* the clips argument
    bI,           \* the clip loop's index i, 1-based
    bJ,           \* the position of the platform loop in cfgPlatforms
    bPc,          \* "clip" | "platform" | "delay" | "retry" | "stagger" | "emit" | "done" | "thrown"
    results,      \* results: platform -> the URLs pushed
    failed,       \* failed: the entries pushed, each with the clip it is about
    invoked,      \* <<i, j>> -> uploadWithRetry calls made for clip i, platform j
    recorded,     \* the analytics.recordUpload calls made, in order
    history,      \* the analytics.addUploadBatch calls made
    bReturn,      \* what uploadClips returned (NoReturn while it runs)
    bEvents,      \* the events uploadClips emitted, in order
    \* ---- UploadScheduler (one instance)
    jobs,         \* this.scheduledJobs in insertion order, deleted entries marked
    isRunning,    \* this.isRunning
    schedulerInterval, \* this.schedulerInterval: a timer id, 0 while undefined
    timers,       \* the active setInterval timers: [id, due]
    ticks,        \* the checkScheduledJobs invocations that have not returned yet
    stoppedAt,    \* when stopScheduler() returned, -1 once startScheduler() is called
    \* ---- Analytics (one instance) and upload_analytics.json
    aData,        \* this.data
    aFile,        \* upload_analytics.json
    aStats,       \* the getStats() returns, in order
    aMutations,   \* recordUpload and addUploadBatch calls made
    \* ---- one job executed by checkScheduledJobs (lines 615-633)
    jStatus,      \* job.status
    jResult,      \* job.result
    jError,       \* job.error
    jEmitted,     \* the events the scheduler emitted for the job
    jPc,          \* "await" | "emitCompleted" | "emitFailed" | "end" | "abandoned"
    jObserved,    \* the upload events delivered to the observers subscribed on
                  \* the SocialMediaUploader that owns the scheduler
    \* ---- the Analytics of the jobs of one scheduler, and upload_analytics.json
    pRuns,        \* per job executed: [pc, data, left], data its analytics.data
    pFile,        \* upload_analytics.json
    pRecords,     \* recordUpload calls made by all jobs
    pBatches,     \* addUploadBatch calls made by all jobs
    \* ---- the uploads to one platform by the jobs of one scheduler
    fRuns,        \* per job executed: [pc, attempt, requests, callNow, wake],
                  \* requests that of the rate limiter of the job's uploader
    fStarts,      \* the times at which upload attempts to the platform started
    fMaxRequests  \* the maxRequests of every rate limiter

rlVars == <<maxRequests, windowMs, requests, rlPc, rlNow, rlWake, rlWait, acquired>>

authVars == <<platformName, credsValid, authenticated, authCalls>>

rtVars == <<maxRetries, attempt, lastError, rtPc, acqCount, upStarted, callLog,
            delays, rtResult, authVars>>

bVars == <<cfgPlatforms, cfgStagger, clips, bI, bJ, bPc, results, failed, invoked,
           recorded, history, bReturn, bEvents>>

sVars == <<jobs, isRunning, schedulerInterval, timers, ticks, stoppedAt>>

aVars == <<aData, aFile, aStats, aMutations>>

jVars == <<jStatus, jResult, jError, jEmitted, jPc, jObserved>>

pVars == <<pRuns, pFile, pRecords, pBatches>>

fVars == <<fRuns, fStarts, fMaxRequests>>

vars == <<now, rlVars, rtVars, bVars, sVars, aVars, jVars, pVars, fVars>>

----------------------------------------------------------------------------
(* Bounds of the model *)

\* RateLimiter: the constructor's arguments are drawn from 1..MaxRequestsArg
\* and 2..MaxWindowArg, the clock runs to RLMaxTime, and at most RLMaxCalls
\* checkLimit() calls are made.
MaxRequestsArg == 2
MaxWindowArg == 3
RLMaxTime == 7
RLMaxCalls == 4

\* uploadWithRetry: the maxRetries argument is drawn from 0..MaxRetriesArg.
MaxRetriesArg == 3

\* uploadClips: batches of 0..MaxClips clips.
MaxClips == 2

\* UploadScheduler: at most MaxJobs jobs are created, and the clock runs for
\* MaxIntervals tick intervals (and on to the events that are left then).
MaxJobs == 2
MaxIntervals == 2

\* The scheduler followed to the end of its jobs: at most LiveMaxJobs jobs
\* are created, and its methods are called during the first LiveIntervals
\* tick intervals.
LiveMaxJobs == 1
LiveIntervals == 1
\* recordUpload and addUploadBatch calls on one Analytics
MaxAnalyticsCalls == 3
\* getStats() calls on one Analytics
MaxStatsCalls == 2
\* jobs executed by one scheduler, each on its own SocialMediaUploader
MaxPersistJobs == 2
\* jobs uploading to one platform, each on its own SocialMediaUploader
MaxFleetJobs == 2

----------------------------------------------------------------------------
(* Helpers *)

Min(S) == CHOOSE x \in S : \A y \in S : x <= y

Range(s) == {s[k] : k \in 1..Len(s)}

----------------------------------------------------------------------------
(* RateLimiter *)

\* this.requests.filter(time => now - time < this.windowMs)
FilterWindow(reqs, t, w) == SelectSeq(reqs, LAMBDA time : t - time < w)

\* this.windowMs - (now - Math.min(...this.requests))
WaitTime(reqs, t, w) == w - (t - Min(Range(reqs)))

\* The timestamp checkLimit stores for an acquisition: the `now` captured on
\* entry (line 185), pushed at line 195 after any sleep.
StoredTimestamp(callNow, returnNow) == callNow

RLIdle ==
    /\ maxRequests = 1
    /\ windowMs = 1
    /\ requests = <<>>
    /\ rlPc = "idle"
    /\ rlNow = 0
    /\ rlWake = 0
    /\ rlWait = 0
    /\ acquired = <<>>

\* new RateLimiter(maxRequests, windowMs)
RLInit ==
    /\ now = 0
    /\ maxRequests \in 1..MaxRequestsArg
    /\ windowMs \in 2..MaxWindowArg
    /\ requests = <<>>
    /\ rlPc = "idle"
    /\ rlNow = 0
    /\ rlWake = 0
    /\ rlWait = 0
    /\ acquired = <<>>

\* checkLimit(), from its entry to its return or to its await of sleep().
CheckLimitCall ==
    /\ rlPc = "idle"
    /\ Len(acquired) < RLMaxCalls
    /\ LET kept == FilterWindow(requests, now, windowMs) IN
       IF Len(kept) >= maxRequests
       THEN /\ requests' = kept
            /\ rlNow' = now
            /\ rlWait' = WaitTime(kept, now, windowMs)
            /\ rlWake' = now + WaitTime(kept, now, windowMs)
            /\ rlPc' = "sleeping"
            /\ UNCHANGED acquired
       ELSE /\ requests' = Append(kept, StoredTimestamp(now, now))
            /\ rlNow' = now
            /\ acquired' = Append(acquired, now)
            /\ UNCHANGED <<rlPc, rlWake, rlWait>>
    /\ UNCHANGED <<now, maxRequests, windowMs>>

\* checkLimit() resumed when the sleep's timer fires: push and return.
CheckLimitWake ==
    /\ rlPc = "sleeping"
    /\ now >= rlWake
    /\ requests' = Append(requests, StoredTimestamp(rlNow, now))
    /\ acquired' = Append(acquired, now)
    /\ rlPc' = "idle"
    /\ UNCHANGED <<now, maxRequests, windowMs, rlNow, rlWake, rlWait>>

\* The clock advances; a pending sleep ends exactly when its timer is due.
RLAdvance ==
    /\ now < RLMaxTime
    /\ rlPc = "sleeping" => now < rlWake
    /\ now' = now + 1
    /\ UNCHANGED rlVars

RLNext == CheckLimitCall \/ CheckLimitWake \/ RLAdvance

----------------------------------------------------------------------------
(* PlatformUploader.uploadWithRetry *)

\* What an upload operation can do: throw an Error with a message, return a
\* non-empty URL, or return an empty (falsy) value.
Messages == {"quota_exceeded", "network_error"}
Urls == {"https://a", "https://b"}
Outcomes ==
    [kind : {"throw"}, val : Messages] \cup [kind : {"url"}, val : Urls]
        \cup [kind : {"empty"}, val : {""}]

NoError == "null"
NoResult == [success |-> FALSE, url |-> "none", error |-> "none"]
\* lastError?.message when lastError is null
MessageOf(err) == IF err = NoError THEN "undefined" ELSE err

\* new UploadResult(platform, success, url = null, error = null)
\* (a default parameter replaces an argument that is undefined)
DefaultNull(v) == IF v = "undefined" THEN "null" ELSE v
UploadResult(success, url, error) ==
    [success |-> success, url |-> DefaultNull(url), error |-> DefaultNull(error)]

RECURSIVE Pow2(_)
Pow2(n) == IF n = 0 THEN 1 ELSE 2 * Pow2(n - 1)

\* Math.pow(2, attempt) * 1000
BackoffDelayFromOne(a) == Pow2(a - 1) * 1000
BackoffDelay(a) == Pow2(a) * 1000

\* for (...; attempt <= maxRetries; ...)
LoopContinuesOffByOne(a, n) == a < n
LoopContinues(a, n) == a <= n

\* if (attempt < maxRetries) in the catch block
BackoffApplies(a, n) == a < n

\* The error kept for the failure result: catch (error) { lastError = error; }
KeepFirstError(prev, msg) == IF prev = NoError THEN msg ELSE prev
KeepError(prev, msg) == msg

\* The uploaders: YouTube's authenticate() returns false while the client id
\* is the placeholder of the shipped CONFIG, as do Instagram's and Twitter's
\* for their tokens; TikTok's and LinkedIn's always return true.
PlatformNames == {"YouTube", "TikTok"}
AlwaysAuthenticates == {"TikTok"}

\* throw new Error('YouTube authentication failed')
AuthMessage(name) == name \o " authentication failed"

\* upload() calls authenticate() unless this.authenticated is set:
\* if (!this.authenticated && !await this.authenticate())
AuthCallsEveryUpload(auth, calls) == calls + 1
AuthCallsCached(auth, calls) == IF auth \/ calls > 0 THEN calls ELSE calls + 1
AuthCallsAfter(auth, calls) == IF auth THEN calls ELSE calls + 1

RetryIdle ==
    /\ maxRetries = 0
    /\ attempt = 1
    /\ lastError = NoError
    /\ rtPc = "loop"
    /\ acqCount = 0
    /\ upStarted = 0
    /\ callLog = <<>>
    /\ delays = <<>>
    /\ rtResult = NoResult
    /\ platformName = "YouTube"
    /\ credsValid = FALSE
    /\ authenticated = FALSE
    /\ authCalls = 0

\* uploadWithRetry(clip, maxRetries) entered: lastError = null, attempt = 1.
RetryInit ==
    /\ maxRetries \in 0..MaxRetriesArg
    /\ attempt = 1
    /\ lastError = NoError
    /\ rtPc = "loop"
    /\ acqCount = 0
    /\ upStarted = 0
    /\ callLog = <<>>
    /\ delays = <<>>
    /\ rtResult = NoResult
    /\ platformName \in PlatformNames
    /\ credsValid \in {c \in BOOLEAN : platformName \in AlwaysAuthenticates => c}
    /\ authenticated \in {a \in BOOLEAN : a => credsValid}
    /\ authCalls = 0

\* The loop test succeeds: await this.rateLimiter.checkLimit() is started.
RetryBeginAttempt ==
    /\ rtPc = "loop"
    /\ LoopContinues(attempt, maxRetries)
    /\ rtPc' = "limit"
    /\ UNCHANGED <<maxRetries, attempt, lastError, acqCount, upStarted, callLog,
                   delays, rtResult>>
    /\ UNCHANGED authVars

\* The checkLimit() calls an attempt makes before it invokes upload.
LimitFirstAttemptOnly(a) == IF a = 1 THEN 1 ELSE 0
LimitCalls(a) == 1

\* await this.rateLimiter.checkLimit() returns.
RetryLimitReturns ==
    /\ rtPc = "limit"
    /\ acqCount' = acqCount + LimitCalls(attempt)
    /\ rtPc' = "invoke"
    /\ UNCHANGED <<maxRetries, attempt, lastError, upStarted, callLog, delays,
                   rtResult>>
    /\ UNCHANGED authVars

\* this.upload(clip) is invoked.
RetryInvokeUpload ==
    /\ rtPc = "invoke"
    /\ upStarted' = upStarted + 1
    /\ rtPc' = "upload"
    /\ UNCHANGED <<maxRetries, attempt, lastError, acqCount, callLog, delays,
                   rtResult>>
    /\ UNCHANGED authVars

\* upload() resolves: a truthy result returns at once, a falsy one goes on
\* to the next iteration.
RetryUploadReturns ==
    /\ rtPc = "upload"
    /\ authenticated \/ credsValid
    /\ authenticated' = TRUE
    /\ authCalls' = AuthCallsAfter(authenticated, authCalls)
    /\ UNCHANGED <<platformName, credsValid>>
    /\ \E o \in Outcomes :
        /\ o.kind \in {"url", "empty"}
        /\ callLog' = Append(callLog, o)
        /\ IF o.kind = "url"
           THEN /\ rtResult' = UploadResult(TRUE, o.val, "null")
                /\ rtPc' = "done"
                /\ UNCHANGED attempt
           ELSE /\ attempt' = attempt + 1
                /\ rtPc' = "loop"
                /\ UNCHANGED rtResult
    /\ UNCHANGED <<maxRetries, lastError, acqCount, upStarted, delays>>

\* upload() rejects: the catch block keeps the error and backs off unless
\* this was the last attempt.
RetryUploadThrows ==
    /\ rtPc = "upload"
    /\ \/ \E o \in Outcomes :
             \* authenticated, then the upload itself throws
             /\ authenticated \/ credsValid
             /\ o.kind = "throw"
             /\ callLog' = Append(callLog, o)
             /\ lastError' = KeepError(lastError, o.val)
             /\ authenticated' = TRUE
       \/ \* authenticate() returns false
          /\ ~authenticated
          /\ callLog' = Append(callLog, [kind |-> "throw", val |-> AuthMessage(platformName)])
          /\ lastError' = KeepError(lastError, AuthMessage(platformName))
          /\ UNCHANGED authenticated
    /\ authCalls' = AuthCallsAfter(authenticated, authCalls)
    /\ UNCHANGED <<platformName, credsValid>>
    /\ IF BackoffApplies(attempt, maxRetries)
       THEN /\ delays' = Append(delays, BackoffDelay(attempt))
            /\ rtPc' = "backoff"
            /\ UNCHANGED attempt
       ELSE /\ attempt' = attempt + 1
            /\ rtPc' = "loop"
            /\ UNCHANGED delays
    /\ UNCHANGED <<maxRetries, acqCount, upStarted, rtResult>>

\* The backoff sleep ends: next iteration.
RetryBackoffEnds ==
    /\ rtPc = "backoff"
    /\ attempt' = attempt + 1
    /\ rtPc' = "loop"
    /\ UNCHANGED <<maxRetries, lastError, acqCount, upStarted, callLog, delays,
                   rtResult>>
    /\ UNCHANGED authVars

\* The loop test fails: return the failure result.
RetryExhausted ==
    /\ rtPc = "loop"
    /\ ~LoopContinues(attempt, maxRetries)
    /\ rtResult' = UploadResult(FALSE, "null", MessageOf(lastError))
    /\ rtPc' = "done"
    /\ UNCHANGED <<maxRetries, attempt, lastError, acqCount, upStarted, callLog,
                   delays>>
    /\ UNCHANGED authVars

RetryNext ==
    \/ RetryBeginAttempt
    \/ RetryLimitReturns
    \/ RetryInvokeUpload
    \/ RetryUploadReturns
    \/ RetryUploadThrows
    \/ RetryBackoffEnds
    \/ RetryExhausted

----------------------------------------------------------------------------
(* VideoClip.validate and SocialMediaUploader.uploadClips *)

\* this.uploaders: the platforms with a registered uploader
Uploaders == {"youtube", "instagram", "tiktok", "linkedin", "twitter"}

\* CONFIG.PLATFORMS_TO_UPLOAD as shipped
DefaultPlatforms == <<"youtube", "instagram", "tiktok">>

\* The values CONFIG.PLATFORMS_TO_UPLOAD is drawn from: the shipped list, and
\* an edited one that names a platform without an uploader.
PlatformConfigs == {DefaultPlatforms, <<"tiktok", "myspace", "youtube">>}

\* CONFIG.RANDOM_DELAY as shipped
RANDOM_DELAY == TRUE

\* The file system validate() looks at.
FileExists(path) == path # "missing.mp4"
FileSizeMB(path) == IF path = "huge.mp4" THEN 501 ELSE 10

\* The clips a batch is made of.
ClipChoices ==
    { [filePath |-> "ok.mp4", title |-> "A", platforms |-> DefaultPlatforms],
      [filePath |-> "ok.mp4", title |-> "B", platforms |-> DefaultPlatforms],
      [filePath |-> "missing.mp4", title |-> "A", platforms |-> DefaultPlatforms],
      [filePath |-> "ok.mp4", title |-> "", platforms |-> DefaultPlatforms],
      [filePath |-> "huge.mp4", title |-> "B", platforms |-> DefaultPlatforms] }

\* clip.validate(): "ok" when it returns true, else the message of the Error
\* it throws.
Validate(clip) ==
    IF ~FileExists(clip.filePath) THEN "File not found: " \o clip.filePath
    ELSE IF clip.title = "" THEN "Title is required"
    ELSE IF FileSizeMB(clip.filePath) > 500
         THEN "File too large: " \o ToString(FileSizeMB(clip.filePath)) \o ".00MB (max: 500MB)"
    ELSE "ok"

\* What uploadWithRetry(clip) can return to uploadClips: a success with the
\* URL the platform gave, or a failure with lastError?.message.
UrlFor(platform, i) == "https://" \o platform \o "/" \o ToString(i)
\* The failure reasons drawn: one error message, and the lastError?.message of a
\* run whose upload never threw but never returned a URL either.
BatchErrors == {"quota_exceeded", MessageOf(NoError)}
RetryResults(platform, i) ==
    {UploadResult(TRUE, UrlFor(platform, i), "null")}
        \cup {UploadResult(FALSE, "null", m) : m \in BatchErrors}

\* failed.push(`${clip.title}: ${error.message}`)
ValidationEntry(clip, msg) == clip.title \o ": " \o msg
\* failed.push(`${clip.title} -> ${platform}: ${result.error}`)
FailureEntryWithoutReason(clip, platform, msg) == clip.title \o " -> " \o platform
FailureEntry(clip, platform, msg) == clip.title \o " -> " \o platform \o ": " \o msg

\* Where the clip loop goes after a failed validation: `continue`.
PcAfterInvalidFallsThrough == "platform"
PcAfterInvalid == "clip"

\* Where the platform loop goes after an uploadWithRetry outcome for position
\* j of n: always on to the next platform.
NextPlatformAgainOnFailure(success, j, n) == IF success THEN j + 1 ELSE j
NextPlatformAbortOnFailure(success, j, n) == IF success THEN j + 1 ELSE n + 1
NextPlatform(success, j, n) == j + 1

\* Where the platform loop goes after a platform without an uploader at
\* position j of n: `continue`, on to the next platform.
AfterUnknownPlatformBreak(j, n) == n + 1
AfterUnknownPlatform(j, n) == j + 1

\* uploadClips has not returned yet.
NoReturn == [status |-> "running"]

Pairs == (1..Len(clips)) \X (1..Len(cfgPlatforms))

BatchIdle ==
    /\ cfgPlatforms = <<>>
    /\ cfgStagger = FALSE
    /\ clips = <<>>
    /\ bI = 1
    /\ bJ = 1
    /\ bPc = "clip"
    /\ results = <<>>
    /\ failed = <<>>
    /\ invoked = <<>>
    /\ recorded = <<>>
    /\ history = <<>>
    /\ bReturn = NoReturn
    /\ bEvents = <<>>

\* uploadClips(clips) entered: results[platform] = [] for every configured
\* platform, failed = [], i = 0.
BatchInit ==
    /\ cfgPlatforms \in PlatformConfigs
    /\ cfgStagger \in BOOLEAN
    /\ clips \in UNION {[1..n -> ClipChoices] : n \in 0..MaxClips}
    /\ bI = 1
    /\ bJ = 1
    /\ bPc = "clip"
    /\ results = [p \in Range(cfgPlatforms) |-> <<>>]
    /\ failed = <<>>
    /\ invoked = [pr \in Pairs |-> 0]
    /\ recorded = <<>>
    /\ history = <<>>
    /\ bReturn = NoReturn
    /\ bEvents = <<>>

\* One iteration of the clip loop up to the platform loop: validate, and on a
\* validation error push the failure entry and continue with the next clip.
BatchClip ==
    /\ bPc = "clip"
    /\ bI <= Len(clips)
    /\ LET clip == clips[bI] IN
       IF Validate(clip) # "ok"
       THEN /\ failed' = Append(failed, [text |-> ValidationEntry(clip, Validate(clip)),
                                         clip |-> bI, platform |-> "none"])
            /\ bPc' = PcAfterInvalid
            /\ bI' = IF PcAfterInvalid = "clip" THEN bI + 1 ELSE bI
            /\ bJ' = 1
       ELSE /\ bPc' = "platform"
            /\ bJ' = 1
            /\ UNCHANGED <<failed, bI>>
    /\ UNCHANGED <<cfgPlatforms, cfgStagger, clips, results, invoked, recorded,
                   history, bReturn, bEvents>>

\* The head of the platform loop: an unknown platform is skipped, a known
\* one starts its random delay (or calls uploadWithRetry at once).
BatchPlatform ==
    /\ bPc = "platform"
    /\ bJ <= Len(cfgPlatforms)
    /\ IF cfgPlatforms[bJ] \notin Uploaders
       THEN /\ bJ' = AfterUnknownPlatform(bJ, Len(cfgPlatforms))
            /\ UNCHANGED <<bPc, invoked>>
       ELSE IF RANDOM_DELAY
       THEN /\ bPc' = "delay"
            /\ UNCHANGED <<bJ, invoked>>
       ELSE /\ bPc' = "retry"
            /\ invoked' = [invoked EXCEPT ![<<bI, bJ>>] = @ + 1]
            /\ UNCHANGED bJ
    /\ UNCHANGED <<cfgPlatforms, cfgStagger, clips, bI, results, failed, recorded,
                   history, bReturn, bEvents>>

\* The random delay ends: uploader.uploadWithRetry(clip) is called.
BatchInvoke ==
    /\ bPc = "delay"
    /\ bPc' = "retry"
    /\ invoked' = [invoked EXCEPT ![<<bI, bJ>>] = @ + 1]
    /\ UNCHANGED <<cfgPlatforms, cfgStagger, clips, bI, bJ, results, failed, recorded,
                   history, bReturn, bEvents>>

\* uploadWithRetry returns: record the URL or the failure, go on to the next
\* platform.
BatchRetryReturns ==
    /\ bPc = "retry"
    /\ LET platform == cfgPlatforms[bJ]
           clip == clips[bI]
       IN \E result \in RetryResults(platform, bI) :
            /\ IF result.success
               THEN /\ results' = [results EXCEPT ![platform] = Append(@, result.url)]
                    /\ recorded' = Append(recorded, [platform |-> platform, success |-> TRUE,
                                                     error |-> "null", clip |-> bI])
                    /\ bEvents' = Append(bEvents, [event |-> "uploadSuccess",
                                                   platform |-> platform, clip |-> bI])
                    /\ UNCHANGED failed
               ELSE /\ failed' = Append(failed,
                                        [text |-> FailureEntry(clip, platform, result.error),
                                         clip |-> bI, platform |-> platform])
                    /\ recorded' = Append(recorded, [platform |-> platform, success |-> FALSE,
                                                     error |-> result.error, clip |-> bI])
                    /\ bEvents' = Append(bEvents, [event |-> "uploadFailed",
                                                   platform |-> platform, clip |-> bI])
                    /\ UNCHANGED results
            /\ bJ' = NextPlatform(result.success, bJ, Len(cfgPlatforms))
    /\ bPc' = "platform"
    /\ UNCHANGED <<cfgPlatforms, cfgStagger, clips, bI, invoked, history, bReturn>>

\* The platform loop is over: stagger before the next clip if enabled and
\* this is not the last clip.
BatchEndPlatforms ==
    /\ bPc = "platform"
    /\ bJ > Len(cfgPlatforms)
    /\ IF cfgStagger /\ bI < Len(clips)
       THEN /\ bPc' = "stagger"
            /\ UNCHANGED bI
       ELSE /\ bPc' = "clip"
            /\ bI' = bI + 1
    /\ UNCHANGED <<cfgPlatforms, cfgStagger, clips, bJ, results, failed, invoked,
                   recorded, history, bReturn, bEvents>>

\* The stagger sleep ends: next clip.
BatchStaggerEnds ==
    /\ bPc = "stagger"
    /\ bPc' = "clip"
    /\ bI' = bI + 1
    /\ UNCHANGED <<cfgPlatforms, cfgStagger, clips, bJ, results, failed, invoked,
                   recorded, history, bReturn, bEvents>>

\* Analytics.addUploadBatch(batchData): one entry pushed to uploadHistory.
AddUploadBatchTwice(h, batchData) == Append(Append(h, batchData), batchData)
AddUploadBatch(h, batchData) == Append(h, batchData)

\* The clip loop is over: addUploadBatch records the batch.
BatchFinish ==
    /\ bPc = "clip"
    /\ bI > Len(clips)
    /\ history' = AddUploadBatch(history,
                       [clipsCount |-> Len(clips), platforms |-> cfgPlatforms,
                        results |-> results, failed |-> failed])
    /\ bPc' = "emit"
    /\ UNCHANGED <<cfgPlatforms, cfgStagger, clips, bI, bJ, results, failed, invoked,
                   recorded, bReturn, bEvents>>

\* emit('batchComplete', { results, failed }), then return the batch result.
BatchEmitComplete ==
    /\ bPc = "emit"
    /\ bEvents' = Append(bEvents, [event |-> "batchComplete", platform |-> "none",
                                   clip |-> 0])
    /\ bReturn' = [status |-> "completed", results |-> results, failed |-> failed]
    /\ bPc' = "done"
    /\ UNCHANGED <<cfgPlatforms, cfgStagger, clips, bI, bJ, results, failed, invoked,
                   recorded, history>>

\* What a throwing uploadSuccess or uploadFailed listener throws.
ObserverErrors == {"observer failed"}

\* uploadWithRetry returns and the listener called by emit (line 785 or 795)
\* throws: the URL or the failure has been recorded already, and the catch
\* block (lines 802-807) pushes a failure entry with the listener's message
\* and calls recordUpload(platform, false, message).
BatchObserverThrows ==
    /\ bPc = "retry"
    /\ LET platform == cfgPlatforms[bJ]
           clip == clips[bI]
       IN \E result \in RetryResults(platform, bI), msg \in ObserverErrors :
            LET caught == [text |-> FailureEntry(clip, platform, msg),
                           clip |-> bI, platform |-> platform]
                recaught == [platform |-> platform, success |-> FALSE,
                             error |-> msg, clip |-> bI]
            IN  IF result.success
                THEN /\ results' = [results EXCEPT ![platform] = Append(@, result.url)]
                     /\ recorded' = recorded \o
                            << [platform |-> platform, success |-> TRUE,
                                error |-> "null", clip |-> bI], recaught >>
                     /\ bEvents' = Append(bEvents, [event |-> "uploadSuccess",
                                                    platform |-> platform, clip |-> bI])
                     /\ failed' = Append(failed, caught)
                ELSE /\ failed' = failed \o
                            << [text |-> FailureEntry(clip, platform, result.error),
                                clip |-> bI, platform |-> platform], caught >>
                     /\ recorded' = recorded \o
                            << [platform |-> platform, success |-> FALSE,
                                error |-> result.error, clip |-> bI], recaught >>
                     /\ bEvents' = Append(bEvents, [event |-> "uploadFailed",
                                                    platform |-> platform, clip |-> bI])
                     /\ UNCHANGED results
    /\ bJ' = bJ + 1
    /\ bPc' = "platform"
    /\ UNCHANGED <<cfgPlatforms, cfgStagger, clips, bI, invoked, history, bReturn>>

BatchNext ==
    \/ BatchClip
    \/ BatchPlatform
    \/ BatchInvoke
    \/ BatchRetryReturns
    \/ BatchEndPlatforms
    \/ BatchStaggerEnds
    \/ BatchFinish
    \/ BatchEmitComplete

----------------------------------------------------------------------------
(* UploadScheduler *)

\* setInterval(..., 60000)
TickIntervalMs == 60000
\* setTimeout(..., 24 * 60 * 60 * 1000)
RetentionMs == 86400000
\* One calendar day, the step of scheduleTime.setDate(getDate() + 1), in a
\* time zone whose clock is not changed (every local day has 24 hours).
DayMs == 86400000

\* The scheduler is called, and its interval timers are followed, during the
\* first MaxIntervals tick intervals (up to SchedCallTime); past that the
\* clock only runs on, with no interval timer left, to the deadlines of the
\* retention timers (up to SchedMaxTime).
SchedCallTime == MaxIntervals * TickIntervalMs
SchedMaxTime == RetentionMs + SchedCallTime

\* The clips handed to the scheduler.
SchedClips ==
    { [filePath |-> "ok.mp4", title |-> "A", platforms |-> DefaultPlatforms] }

\* The scheduleTime arguments of scheduleUpload, relative to the clock: one
\* minute ago.
ScheduleOffsets == {0 - TickIntervalMs}

\* The platformSchedule arguments of schedulePlatformUploads: entries in
\* Object.entries order, the 'HH:MM' strings already split and parsed.
PlatformSchedules ==
    { << [platform |-> "youtube", hours |-> 0, minutes |-> 1],
         [platform |-> "instagram", hours |-> 0, minutes |-> 2] >>,
      << [platform |-> "tiktok", hours |-> 0, minutes |-> 0] >> }

\* scheduleTime = new Date(); scheduleTime.setHours(hours, minutes, 0, 0)
TodayAt(t, hours, minutes) == (t - (t % DayMs)) + (hours * 60 + minutes) * TickIntervalMs

\* if (scheduleTime < new Date()) scheduleTime.setDate(getDate() + 1)
NextOccurrenceToday(t, hours, minutes) == TodayAt(t, hours, minutes)
NextOccurrence(t, hours, minutes) ==
    IF TodayAt(t, hours, minutes) < t
    THEN TodayAt(t, hours, minutes) + DayMs
    ELSE TodayAt(t, hours, minutes)

\* The job record scheduleUpload stores, with the bookkeeping of the model:
\* inMap (still an entry of the map), forPlatform (the platform
\* schedulePlatformUploads made the job for), uploadedTo (the platforms its
\* execution made upload attempts to), runs (uploadClips calls made for it),
\* deleteAt (when its retention timer is due, -1: none), emitted (the events
\* emitted for it).
NewJob(clip, scheduleTime, forPlatform) ==
    [ clip |-> clip, scheduleTime |-> scheduleTime, status |-> "scheduled",
      inMap |-> TRUE, forPlatform |-> forPlatform, uploadedTo |-> {}, runs |-> 0,
      deleteAt |-> -1, result |-> "none", error |-> "none", emitted |-> <<>> ]

\* new VideoClip({...clip, platforms: [platform]})
PlatformClip(clip, platform) == [clip EXCEPT !.platforms = <<platform>>]

\* The platforms uploadClips([clip]) makes upload attempts to: every
\* configured platform with an uploader, when the clip passes validation.
BatchPlatforms(clip, cfg) ==
    IF Validate(clip) = "ok" THEN Range(cfg) \cap Uploaders ELSE {}

\* job.status === 'scheduled' && job.scheduleTime <= now
IsDueIgnoringStatus(job, tnow) == job.scheduleTime <= tnow
IsDueIgnoringTime(job, tnow) == job.status = "scheduled"
IsDue(job, tnow) == job.status = "scheduled" /\ job.scheduleTime <= tnow

\* The id setInterval returns: one that no live timer has and that
\* this.schedulerInterval does not hold.
NewTimerId(ts, held) ==
    Min({i \in 1..(Cardinality(ts) + 2) : i # held /\ \A t \in ts : t.id # i})

\* clearInterval(id)
ClearIntervalNoop(ts, id) == ts
ClearInterval(ts, id) == {t \in ts : t.id # id}

\* The next entry, after position pos, that the tick's for-of loop over the
\* map acts on (0: the loop ends).
NextDueLast(js, pos, tnow) ==
    LET due == {k \in (pos + 1)..Len(js) : js[k].inMap /\ IsDue(js[k], tnow)}
    IN IF due = {} THEN 0 ELSE CHOOSE k \in due : \A m \in due : m <= k
NextDue(js, pos, tnow) ==
    LET due == {k \in (pos + 1)..Len(js) : js[k].inMap /\ IsDue(js[k], tnow)}
    IN IF due = {} THEN 0 ELSE Min(due)

\* The tick with `now` = tnow runs its loop on from position pos up to its
\* next await: the next due job becomes 'executing' and uploadClips is
\* called for it, or the loop ends and the invocation returns.  A tick is
\* [now, pc, job]: its `now`, where it is suspended and the entry its loop
\* is at.
TicksAfterScan(js, pos, tnow) ==
    LET k == NextDue(js, pos, tnow)
    IN IF k = 0 THEN {} ELSE {[now |-> tnow, pc |-> "await", job |-> k]}

JobsAfterScan(js, pos, tnow) ==
    LET k == NextDue(js, pos, tnow)
    IN IF k = 0 THEN js
       ELSE [js EXCEPT ![k].status = "executing", ![k].runs = @ + 1]

\* A listener of jobCompleted or jobFailed is running.
InListener == \E t \in ticks : t.pc \in {"emitCompleted", "emitFailed"}

SchedIdle ==
    /\ jobs = <<>>
    /\ isRunning = FALSE
    /\ schedulerInterval = 0
    /\ timers = {}
    /\ ticks = {}
    /\ stoppedAt = -1

\* new UploadScheduler()
SchedInit == now = 0 /\ SchedIdle

\* scheduleUpload(clip, scheduleTime)
ScheduleUpload ==
    /\ now <= SchedCallTime
    /\ Len(jobs) < MaxJobs
    /\ \E clip \in SchedClips, off \in ScheduleOffsets :
         jobs' = Append(jobs, NewJob(clip, now + off, "none"))
    /\ UNCHANGED <<now, isRunning, schedulerInterval, timers, ticks,
                   stoppedAt>>

\* schedulePlatformUploads(clip, platformSchedule)
SchedulePlatformUploads ==
    \E clip \in SchedClips, sched \in PlatformSchedules :
       /\ now <= SchedCallTime
       /\ Len(jobs) + Len(sched) <= MaxJobs
       /\ jobs' = jobs \o [k \in 1..Len(sched) |->
                    NewJob(PlatformClip(clip, sched[k].platform),
                           NextOccurrence(now, sched[k].hours, sched[k].minutes),
                           sched[k].platform)]
       /\ UNCHANGED <<now, isRunning, schedulerInterval, timers, ticks,
                      stoppedAt>>

\* startScheduler()
StartScheduler ==
    /\ now <= SchedCallTime
    /\ IF isRunning
       THEN UNCHANGED <<isRunning, schedulerInterval, timers>>
       ELSE /\ isRunning' = TRUE
            /\ schedulerInterval' = NewTimerId(timers, schedulerInterval)
            /\ timers' = timers \cup {[id |-> NewTimerId(timers, schedulerInterval),
                                        due |-> now + TickIntervalMs]}
    /\ stoppedAt' = -1
    /\ UNCHANGED <<now, jobs, ticks>>

\* The checkScheduledJobs invocations in progress after stopScheduler(): it
\* touches none of them.
TicksAfterStopCancelled(ts) == {}
TicksAfterStop(ts) == ts

\* stopScheduler()
StopScheduler ==
    /\ now <= SchedCallTime
    /\ IF schedulerInterval # 0
       THEN /\ timers' = ClearInterval(timers, schedulerInterval)
            /\ isRunning' = FALSE
       ELSE UNCHANGED <<timers, isRunning>>
    /\ stoppedAt' = IF stoppedAt = -1 THEN now ELSE stoppedAt
    /\ ticks' = TicksAfterStop(ticks)
    /\ UNCHANGED <<now, jobs, schedulerInterval>>

\* setInterval: a timer that has fired is due again one interval later.
RearmNever(tm) == {}
Rearm(tm) == {[tm EXCEPT !.due = @ + TickIntervalMs]}

\* An interval timer fires: checkScheduledJobs() runs up to its first await.
TickFire ==
    /\ ~InListener
    /\ \E tm \in timers :
         /\ tm.due <= now
         /\ timers' = (timers \ {tm}) \cup Rearm(tm)
    /\ ticks' = ticks \cup TicksAfterScan(jobs, 0, now)
    /\ jobs' = JobsAfterScan(jobs, 0, now)
    /\ UNCHANGED <<now, isRunning, schedulerInterval, stoppedAt>>

\* await uploader.uploadClips([job.clip]) resolves: the job is 'completed',
\* its result is stored and the jobCompleted listeners are called.
JobResolves ==
    /\ ~InListener
    /\ \E t \in ticks :
         /\ t.pc = "await"
         /\ LET k == t.job IN
            jobs' = [jobs EXCEPT ![k].status = "completed", ![k].result = "completed",
                                 ![k].uploadedTo = BatchPlatforms(jobs[k].clip, DefaultPlatforms),
                                 ![k].emitted = Append(@, "jobCompleted")]
         /\ ticks' = (ticks \ {t}) \cup {[t EXCEPT !.pc = "emitCompleted"]}
    /\ UNCHANGED <<now, isRunning, schedulerInterval, timers, stoppedAt>>

\* What the promise of uploadClips can reject with: uploadClips has no
\* try around clip.title (line 752) or analytics.addUploadBatch (line 819),
\* which throws when the uploadHistory loaded from upload_analytics.json is
\* not an array.
RejectMessages == {"uploadHistory.push is not a function"}

\* await uploader.uploadClips([job.clip]) rejects: the catch block marks the
\* job 'failed', stores the message and calls the jobFailed listeners.
JobRejects ==
    /\ ~InListener
    /\ \E t \in ticks, msg \in RejectMessages :
         /\ t.pc = "await"
         /\ LET k == t.job IN
            jobs' = [jobs EXCEPT ![k].status = "failed", ![k].error = msg,
                                 ![k].uploadedTo = BatchPlatforms(jobs[k].clip, DefaultPlatforms),
                                 ![k].emitted = Append(@, "jobFailed")]
         /\ ticks' = (ticks \ {t}) \cup {[t EXCEPT !.pc = "emitFailed"]}
    /\ UNCHANGED <<now, isRunning, schedulerInterval, timers, stoppedAt>>

\* The retention timer is set and the for-of loop goes on to its next await.
AfterJob(t) ==
    LET js == [jobs EXCEPT ![t.job].deleteAt = now + RetentionMs] IN
    /\ jobs' = JobsAfterScan(js, t.job, t.now)
    /\ ticks' = (ticks \ {t}) \cup TicksAfterScan(js, t.job, t.now)

\* The jobCompleted listeners return.
CompletedListenerReturns ==
    /\ \E t \in ticks :
         /\ t.pc = "emitCompleted"
         /\ AfterJob(t)
    /\ UNCHANGED <<now, isRunning, schedulerInterval, timers, stoppedAt>>

\* A jobCompleted listener throws: the catch block marks the job 'failed'
\* and calls the jobFailed listeners.
CompletedListenerThrows ==
    /\ \E t \in ticks :
         /\ t.pc = "emitCompleted"
         /\ LET k == t.job IN
            jobs' = [jobs EXCEPT ![k].status = "failed", ![k].error = "listener error",
                                 ![k].emitted = Append(@, "jobFailed")]
         /\ ticks' = (ticks \ {t}) \cup {[t EXCEPT !.pc = "emitFailed"]}
    /\ UNCHANGED <<now, isRunning, schedulerInterval, timers, stoppedAt>>

\* The jobFailed listeners return.
FailedListenerReturns ==
    /\ \E t \in ticks :
         /\ t.pc = "emitFailed"
         /\ AfterJob(t)
    /\ UNCHANGED <<now, isRunning, schedulerInterval, timers, stoppedAt>>

\* A jobFailed listener throws inside the catch block: checkScheduledJobs
\* rejects; no retention timer is set and the loop is abandoned.
FailedListenerThrows ==
    /\ \E t \in ticks :
         /\ t.pc = "emitFailed"
         /\ ticks' = ticks \ {t}
    /\ UNCHANGED <<now, jobs, isRunning, schedulerInterval, timers,
                   stoppedAt>>

\* A retention timer fires: this.scheduledJobs.delete(jobId)
RetentionFires ==
    /\ ~InListener
    /\ \E k \in 1..Len(jobs) :
         /\ jobs[k].deleteAt # -1
         /\ jobs[k].deleteAt <= now
         /\ jobs' = [jobs EXCEPT ![k].inMap = FALSE, ![k].deleteAt = -1]
    /\ UNCHANGED <<now, isRunning, schedulerInterval, timers, ticks,
                   stoppedAt>>

\* The deadlines of the pending timers.
Deadlines ==
    {tm.due : tm \in timers} \cup {jobs[k].deleteAt : k \in {m \in 1..Len(jobs) : jobs[m].deleteAt # -1}}

\* The clock advances to the next deadline (by one tick interval when no
\* timer is pending); timers fire when they are due.
SchedAdvance ==
    /\ ~InListener
    /\ \A d \in Deadlines : d > now
    /\ now' = IF Deadlines = {} THEN now + TickIntervalMs ELSE Min(Deadlines)
    /\ now' <= IF timers = {} /\ Deadlines # {} THEN SchedMaxTime ELSE SchedCallTime
    /\ UNCHANGED sVars

\* The entries of the map that are still 'scheduled'.
Waiting == {k \in 1..Len(jobs) : jobs[k].inMap /\ jobs[k].status = "scheduled"}

\* The first time d, d + 60000, d + 120000, ... that is not before t.
FirstFiringFrom(d, t) ==
    IF t <= d THEN d
    ELSE d + ((t - d + TickIntervalMs - 1) \div TickIntervalMs) * TickIntervalMs

\* The times at which something happens next: a retention timer is due, or
\* an interval timer fires with a waiting job due.  The interval firings
\* before that find no due job: checkScheduledJobs returns from its loop
\* having changed nothing.
NextEvents ==
    {jobs[k].deleteAt : k \in {m \in 1..Len(jobs) : jobs[m].deleteAt # -1}}
        \cup {FirstFiringFrom(tm.due, jobs[k].scheduleTime) : tm \in timers, k \in Waiting}

\* Past the period in which the scheduler's methods are called, the clock
\* runs on to the next event; the interval timers fire idly on the way and
\* are left due at their first firing not before it.
SchedAdvanceLate(callTime) ==
    /\ ~InListener
    /\ \A d \in Deadlines : d > now
    /\ NextEvents # {}
    /\ Min(NextEvents) > callTime
    /\ now' = Min(NextEvents)
    /\ timers' = {[tm EXCEPT !.due = FirstFiringFrom(tm.due, Min(NextEvents))] : tm \in timers}
    /\ UNCHANGED <<jobs, isRunning, schedulerInterval, ticks, stoppedAt>>

SchedNext ==
    \/ ScheduleUpload
    \/ SchedulePlatformUploads
    \/ StartScheduler
    \/ StopScheduler
    \/ TickFire
    \/ JobResolves
    \/ JobRejects
    \/ CompletedListenerReturns
    \/ CompletedListenerThrows
    \/ FailedListenerReturns
    \/ FailedListenerThrows
    \/ RetentionFires
    \/ SchedAdvance

----------------------------------------------------------------------------
(* Analytics *)

\* x || 0 on a property of a counter object.
Get(f, p) == IF p \in DOMAIN f THEN f[p] ELSE 0
\* obj[p] = v
Put(f, p, v) == [q \in DOMAIN f \cup {p} |-> IF q = p THEN v ELSE f[q]]
NoProperties == [q \in {} |-> 0]

\* a / b, kept as the pair of its operands; two quotients are the same number
\* when they cross-multiply to the same product.
Quotient(a, b) == <<a, b>>
SameNumber(x, y) == x[1] * y[2] = y[1] * x[2]

\* this.data as the constructor builds it.
EmptyData ==
    [ totalUploads |-> 0,
      successfulUploads |-> NoProperties,
      failedUploads |-> NoProperties,
      uploadHistory |-> <<>>,
      platformPerformance |-> NoProperties ]

\* The platformPerformance entry recordUpload creates for a new platform.
NewPerformanceCounted ==
    [ successRate |-> <<0, 1>>, totalAttempts |-> 1, lastUpload |-> "null",
      commonErrors |-> [q \in {} |-> 0] ]
NewPerformance ==
    [ successRate |-> Quotient(0, 1), totalAttempts |-> 0, lastUpload |-> "null",
      commonErrors |-> NoProperties ]

\* The platforms, errors and batches the calls are drawn from.
AnalyticsPlatforms == {"youtube", "tiktok"}
AnalyticsErrors == {"null", "quota_exceeded"}
BatchSummaries == {[clipsCount |-> 0], [clipsCount |-> 1]}

\* `error` is truthy.
Truthy(error) == error \notin {"null", "undefined", ""}

\* this.data after recordUpload(platform, success, error).
RecordUpload(d, platform, success, error) ==
    LET succ == IF success THEN Put(d.successfulUploads, platform,
                                    Get(d.successfulUploads, platform) + 1)
                ELSE d.successfulUploads
        fail == IF success THEN d.failedUploads
                ELSE Put(d.failedUploads, platform, Get(d.failedUploads, platform) + 1)
        perf == IF platform \in DOMAIN d.platformPerformance
                THEN d.platformPerformance[platform] ELSE NewPerformance
        attempts == perf.totalAttempts + 1
        perf2 == [ successRate |-> IF success THEN Quotient(Get(succ, platform), attempts)
                                   ELSE perf.successRate,
                   totalAttempts |-> attempts,
                   lastUpload |-> "timestamp",
                   commonErrors |-> IF ~success /\ Truthy(error)
                                    THEN Put(perf.commonErrors, error,
                                             Get(perf.commonErrors, error) + 1)
                                    ELSE perf.commonErrors ]
    IN  [ totalUploads |-> d.totalUploads + 1,
          successfulUploads |-> succ,
          failedUploads |-> fail,
          uploadHistory |-> d.uploadHistory,
          platformPerformance |-> Put(d.platformPerformance, platform, perf2) ]

\* this.data after addUploadBatch(batchData).
PushBatch(d, batchData) ==
    [d EXCEPT !.uploadHistory =
        Append(@, [timestamp |-> "timestamp", clipsCount |-> batchData.clipsCount])]

\* getStats(): { ...this.data }.  The spread copies each own property of
\* this.data: the number totalUploads by value, the four objects by reference.
SharedProperties ==
    {"successfulUploads", "failedUploads", "uploadHistory", "platformPerformance"}
GetStats(d) == [own |-> [totalUploads |-> d.totalUploads], shared |-> SharedProperties]

\* What a reader of a getStats() return finds in it while this.data is d.
Read(stats, d) ==
    [f \in DOMAIN d |-> IF f \in stats.shared THEN d[f] ELSE stats.own[f]]

\* this.data after getStats(): as it was.
DataAfterGetStatsCounted(d) == [d EXCEPT !.totalUploads = @ + 1]
DataAfterGetStats(d) == d

\* upload_analytics.json
NoFile == [exists |-> FALSE]
\* saveToFile(): the file holds this.data, unless writeFileSync throws, which
\* is caught and logged.
SaveToFile(d) ==
    \/ aFile' = [exists |-> TRUE, data |-> d]
    \/ aFile' = aFile

AnalyticsIdle ==
    /\ aData = EmptyData
    /\ aFile = NoFile
    /\ aStats = <<>>
    /\ aMutations = 0

\* new Analytics() where upload_analytics.json does not exist.
AnalyticsInit ==
    /\ aData = EmptyData
    /\ aFile = NoFile
    /\ aStats = <<>>
    /\ aMutations = 0

\* analytics.recordUpload(platform, success, error)
RecordUploadCall ==
    /\ aMutations < MaxAnalyticsCalls
    /\ \E platform \in AnalyticsPlatforms, success \in BOOLEAN, error \in AnalyticsErrors :
          /\ success => error = "null"
          /\ aData' = RecordUpload(aData, platform, success, error)
          /\ SaveToFile(aData')
    /\ aMutations' = aMutations + 1
    /\ UNCHANGED aStats

\* analytics.addUploadBatch(batchData)
AddUploadBatchCall ==
    /\ aMutations < MaxAnalyticsCalls
    /\ \E batchData \in BatchSummaries :
          /\ aData' = PushBatch(aData, batchData)
          /\ SaveToFile(aData')
    /\ aMutations' = aMutations + 1
    /\ UNCHANGED aStats

\* analytics.getStats(): the caller keeps what it returned, and what it read
\* in it on return.
GetStatsCall ==
    /\ Len(aStats) < MaxStatsCalls
    /\ aData' = DataAfterGetStats(aData)
    /\ aStats' = Append(aStats, [stats |-> GetStats(aData'),
                                 seen |-> Read(GetStats(aData'), aData'),
                                 at |-> aMutations])
    /\ UNCHANGED <<aFile, aMutations>>

AnalyticsNext ==
    \/ RecordUploadCall
    \/ AddUploadBatchCall
    \/ GetStatsCall

----------------------------------------------------------------------------
(* One job executed by UploadScheduler.checkScheduledJobs *)

\* The emitters: the SocialMediaUploader the caller made and subscribed on
\* (lines 980-993), whose scheduler runs the job, and the one the tick makes
\* for the job (line 619).
OwnerUploader == "uploader"
JobUploader == "new SocialMediaUploader()"

\* The emitter the observers of uploadSuccess, uploadFailed and batchComplete
\* are subscribed on.
SubscribedOn == OwnerUploader

\* emit(): the events reach the listeners registered on the emitter itself.
Deliver(emitter, events) == IF emitter = SubscribedOn THEN events ELSE <<>>

\* The events of bEvents' that bEvents does not have yet.
NewEvents == SubSeq(bEvents', Len(bEvents) + 1, Len(bEvents'))

\* job.status after uploadClips resolved with result (line 622).
StatusFailedOnFailures(result) ==
    IF result.failed # <<>> THEN "failed" ELSE "completed"
StatusAfterBatch(result) == "completed"

JobIdle ==
    /\ jStatus = "scheduled"
    /\ jResult = NoReturn
    /\ jError = "none"
    /\ jEmitted = <<>>
    /\ jPc = "await"
    /\ jObserved = <<>>

\* The tick has set job.status = 'executing' and called uploadClips([job.clip])
\* on a new SocialMediaUploader.
JobInit ==
    /\ BatchInit
    /\ Len(clips) = 1
    /\ jStatus = "executing"
    /\ jResult = NoReturn
    /\ jError = "none"
    /\ jEmitted = <<>>
    /\ jPc = "await"
    /\ jObserved = <<>>

\* The steps of uploadClips for a list of one clip: the stagger sleep is
\* only taken before a next clip.
SingleClipBatchNext ==
    \/ BatchClip
    \/ BatchPlatform
    \/ BatchInvoke
    \/ BatchRetryReturns
    \/ BatchEndPlatforms
    \/ BatchFinish
    \/ BatchEmitComplete

\* uploadClips([job.clip]) runs on; what it emits is emitted by the job's
\* uploader.
ExecBatchStep ==
    /\ jPc = "await"
    /\ SingleClipBatchNext
    /\ jObserved' = jObserved \o Deliver(JobUploader, NewEvents)
    /\ UNCHANGED <<jStatus, jResult, jError, jEmitted, jPc>>

\* uploadClips throws out of analytics.addUploadBatch (line 819): the catch
\* block marks the job 'failed' and emits jobFailed.
ExecBatchThrows ==
    /\ jPc = "await"
    /\ bPc = "clip"
    /\ bI > Len(clips)
    /\ bPc' = "thrown"
    /\ \E msg \in RejectMessages : jError' = msg
    /\ jStatus' = "failed"
    /\ jEmitted' = Append(jEmitted, "jobFailed")
    /\ jPc' = "emitFailed"
    /\ UNCHANGED <<cfgPlatforms, cfgStagger, clips, bI, bJ, results, failed, invoked,
                   recorded, history, bReturn, bEvents, jResult, jObserved>>

\* await uploadClips resolves: lines 622-624.
ExecResolves ==
    /\ jPc = "await"
    /\ bPc = "done"
    /\ jStatus' = StatusAfterBatch(bReturn)
    /\ jResult' = bReturn
    /\ jEmitted' = Append(jEmitted, "jobCompleted")
    /\ jPc' = "emitCompleted"
    /\ UNCHANGED <<bVars, jError, jObserved>>

\* The jobCompleted listeners return.
ExecCompletedListenerReturns ==
    /\ jPc = "emitCompleted"
    /\ jPc' = "end"
    /\ UNCHANGED <<bVars, jStatus, jResult, jError, jEmitted, jObserved>>

\* A jobCompleted listener throws: the catch block (lines 627-631).
ExecCompletedListenerThrows ==
    /\ jPc = "emitCompleted"
    /\ jStatus' = "failed"
    /\ jError' = "listener error"
    /\ jEmitted' = Append(jEmitted, "jobFailed")
    /\ jPc' = "emitFailed"
    /\ UNCHANGED <<bVars, jResult, jObserved>>

\* The jobFailed listeners return.
ExecFailedListenerReturns ==
    /\ jPc = "emitFailed"
    /\ jPc' = "end"
    /\ UNCHANGED <<bVars, jStatus, jResult, jError, jEmitted, jObserved>>

\* A jobFailed listener throws inside the catch block: checkScheduledJobs
\* rejects.
ExecFailedListenerThrows ==
    /\ jPc = "emitFailed"
    /\ jPc' = "abandoned"
    /\ UNCHANGED <<bVars, jStatus, jResult, jError, jEmitted, jObserved>>

JobNext ==
    \/ ExecBatchStep
    \/ ExecBatchThrows
    \/ ExecResolves
    \/ ExecCompletedListenerReturns
    \/ ExecCompletedListenerThrows
    \/ ExecFailedListenerReturns
    \/ ExecFailedListenerThrows

----------------------------------------------------------------------------
(* The Analytics instances of the jobs of one scheduler *)

\* loadFromFile(): this.data = { ...this.data, ...JSON.parse(data) } when the
\* file exists.  The file is one saveToFile() wrote, so it has every property
\* of this.data.
LoadFromFile(file) == IF file.exists THEN file.data ELSE EmptyData

\* The platforms configured for the jobs' batches, and the outcomes of
\* uploadWithRetry.
PersistPlatforms == <<"youtube", "tiktok">>
PersistOutcomes ==
    { [success |-> TRUE, error |-> "null"], [success |-> FALSE, error |-> "quota_exceeded"] }

PersistIdle ==
    /\ pRuns = <<>>
    /\ pFile = NoFile
    /\ pRecords = 0
    /\ pBatches = 0

\* A new scheduler; upload_analytics.json does not exist.
PersistInit ==
    /\ pRuns = <<>>
    /\ pFile = NoFile
    /\ pRecords = 0
    /\ pBatches = 0

\* A tick executes a due job: new SocialMediaUploader() (line 619) makes a
\* new Analytics(), which loads the file; uploadClips([job.clip]) starts.
PersistJobStarts ==
    /\ Len(pRuns) < MaxPersistJobs
    /\ pRuns' = Append(pRuns, [pc |-> "running", data |-> LoadFromFile(pFile),
                               left |-> Len(PersistPlatforms)])
    /\ UNCHANGED <<pFile, pRecords, pBatches>>

\* uploadWithRetry returned for the next platform of job r:
\* recordUpload(platform, success, error) on the job's Analytics, which
\* writes its data to the file.
PersistJobRecords(r) ==
    /\ pRuns[r].pc = "running"
    /\ pRuns[r].left > 0
    /\ \E o \in PersistOutcomes :
         LET platform == PersistPlatforms[Len(PersistPlatforms) - pRuns[r].left + 1]
             d == RecordUpload(pRuns[r].data, platform, o.success, o.error)
         IN  /\ pRuns' = [pRuns EXCEPT ![r].data = d, ![r].left = @ - 1]
             /\ pFile' = [exists |-> TRUE, data |-> d]
    /\ pRecords' = pRecords + 1
    /\ UNCHANGED pBatches

\* The platform loop of job r is over: addUploadBatch on the job's Analytics,
\* which writes its data to the file; uploadClips returns.
PersistJobEnds(r) ==
    /\ pRuns[r].pc = "running"
    /\ pRuns[r].left = 0
    /\ LET d == PushBatch(pRuns[r].data, [clipsCount |-> 1])
       IN  /\ pRuns' = [pRuns EXCEPT ![r].data = d, ![r].pc = "done"]
           /\ pFile' = [exists |-> TRUE, data |-> d]
    /\ pBatches' = pBatches + 1
    /\ UNCHANGED pRecords

PersistNext ==
    \/ PersistJobStarts
    \/ \E r \in DOMAIN pRuns : PersistJobRecords(r)
    \/ \E r \in DOMAIN pRuns : PersistJobEnds(r)

----------------------------------------------------------------------------
(* The rate limiters of the jobs of one scheduler, for one platform *)

\* new RateLimiter(): windowMs takes the constructor's default.
LimiterWindowMs == 3600000
\* CONFIG.MAX_RETRIES, the maxRetries of uploadWithRetry(clip)
DefaultMaxRetries == 3
\* upload(): await this.sleep(2000) before the URL is returned
UploadMs == 2000

FleetIdle ==
    /\ fRuns = <<>>
    /\ fStarts = <<>>
    /\ fMaxRequests = 1

\* A new scheduler.  Every rate limiter is made by new RateLimiter() (line
\* 286) and has the same maxRequests, the default of the constructor, which is
\* drawn here from 1..MaxRequestsArg so that a window fills.
FleetInit ==
    /\ fRuns = <<>>
    /\ fStarts = <<>>
    /\ fMaxRequests \in 1..MaxRequestsArg

\* A tick executes a due job: new SocialMediaUploader() (line 619) makes the
\* platform's uploader and with it a new RateLimiter; uploadWithRetry(clip)
\* is called on it.
FleetJobStarts ==
    /\ Len(fRuns) < MaxFleetJobs
    /\ fRuns' = Append(fRuns, [pc |-> "limit", attempt |-> 1, requests |-> <<>>,
                               callNow |-> 0, wake |-> 0])
    /\ UNCHANGED <<now, fStarts, fMaxRequests>>

\* checkLimit() of job r's limiter, from its entry to its return or its
\* sleep; when it returns, upload(clip) is invoked.
FleetCheckLimit(r) ==
    /\ fRuns[r].pc = "limit"
    /\ LET kept == FilterWindow(fRuns[r].requests, now, LimiterWindowMs) IN
       IF Len(kept) >= fMaxRequests
       THEN /\ fRuns' = [fRuns EXCEPT ![r].requests = kept, ![r].callNow = now,
                                      ![r].wake = now + WaitTime(kept, now, LimiterWindowMs),
                                      ![r].pc = "limited"]
            /\ UNCHANGED fStarts
       ELSE /\ fRuns' = [fRuns EXCEPT ![r].requests = Append(kept, StoredTimestamp(now, now)),
                                      ![r].callNow = now, ![r].wake = now + UploadMs,
                                      ![r].pc = "upload"]
            /\ fStarts' = Append(fStarts, now)
    /\ UNCHANGED <<now, fMaxRequests>>

\* The sleep of checkLimit() ends: push, return, upload(clip) is invoked.
FleetLimitWake(r) ==
    /\ fRuns[r].pc = "limited"
    /\ now >= fRuns[r].wake
    /\ fRuns' = [fRuns EXCEPT ![r].requests =
                                  Append(@, StoredTimestamp(fRuns[r].callNow, now)),
                              ![r].wake = now + UploadMs, ![r].pc = "upload"]
    /\ fStarts' = Append(fStarts, now)
    /\ UNCHANGED <<now, fMaxRequests>>

\* upload(clip) of job r resolves with a URL (uploadWithRetry returns) or
\* rejects (the next attempt follows the backoff, if one is left).
FleetUploadEnds(r) ==
    /\ fRuns[r].pc = "upload"
    /\ now >= fRuns[r].wake
    /\ \E success \in BOOLEAN :
         fRuns' = [fRuns EXCEPT
                     ![r].pc = IF success \/ ~BackoffApplies(fRuns[r].attempt, DefaultMaxRetries)
                               THEN "done" ELSE "backoff",
                     ![r].wake = IF success THEN @ ELSE now + BackoffDelay(fRuns[r].attempt)]
    /\ UNCHANGED <<now, fStarts, fMaxRequests>>

\* The backoff sleep of job r ends: the next iteration of the retry loop.
FleetBackoffEnds(r) ==
    /\ fRuns[r].pc = "backoff"
    /\ now >= fRuns[r].wake
    /\ fRuns' = [fRuns EXCEPT ![r].attempt = @ + 1, ![r].pc = "limit"]
    /\ UNCHANGED <<now, fStarts, fMaxRequests>>

\* The jobs that are in a sleep, and the clock advancing to the first timer
\* due.
FleetSleeping == {r \in DOMAIN fRuns : fRuns[r].pc \in {"limited", "upload", "backoff"}}
FleetAdvance ==
    /\ FleetSleeping # {}
    /\ \A r \in FleetSleeping : fRuns[r].wake > now
    /\ now' = Min({fRuns[r].wake : r \in FleetSleeping})
    /\ UNCHANGED fVars

FleetNext ==
    \/ FleetJobStarts
    \/ \E r \in DOMAIN fRuns : FleetCheckLimit(r)
    \/ \E r \in DOMAIN fRuns : FleetLimitWake(r)
    \/ \E r \in DOMAIN fRuns : FleetUploadEnds(r)
    \/ \E r \in DOMAIN fRuns : FleetBackoffEnds(r)
    \/ FleetAdvance

----------------------------------------------------------------------------
(* Specifications *)

\* One RateLimiter and its caller; the other components are not running.
InitRL == RLInit /\ RetryIdle /\ BatchIdle /\ SchedIdle /\ AnalyticsIdle /\ JobIdle /\ PersistIdle /\ FleetIdle
SpecRL == InitRL /\ [][RLNext /\ UNCHANGED <<rtVars, bVars, sVars, aVars, jVars, pVars, fVars>>]_vars

\* One uploadWithRetry call.
InitRetry ==
    now = 0 /\ RLIdle /\ RetryInit /\ BatchIdle /\ SchedIdle /\ AnalyticsIdle /\ JobIdle /\ PersistIdle /\ FleetIdle
SpecRetry ==
    InitRetry /\ [][RetryNext /\ UNCHANGED <<now, rlVars, bVars, sVars, aVars, jVars, pVars, fVars>>]_vars

\* One uploadClips call.
InitBatch ==
    now = 0 /\ RLIdle /\ RetryIdle /\ BatchInit /\ SchedIdle /\ AnalyticsIdle /\ JobIdle /\ PersistIdle /\ FleetIdle
SpecBatch ==
    InitBatch /\ [][BatchNext /\ UNCHANGED <<now, rlVars, rtVars, sVars, aVars, jVars, pVars, fVars>>]_vars

\* One uploadClips call on an uploader whose uploadSuccess and uploadFailed
\* listeners may throw.
BatchObserversNext == BatchNext \/ BatchObserverThrows
SpecBatchObservers ==
    InitBatch
        /\ [][BatchObserversNext /\ UNCHANGED <<now, rlVars, rtVars, sVars, aVars, jVars, pVars, fVars>>]_vars

\* One job from 'executing' to the end of its iteration of the tick's loop.
InitJob ==
    now = 0 /\ RLIdle /\ RetryIdle /\ SchedIdle /\ AnalyticsIdle /\ JobInit /\ PersistIdle /\ FleetIdle
SpecJob ==
    InitJob /\ [][JobNext /\ UNCHANGED <<now, rlVars, rtVars, sVars, aVars, pVars, fVars>>]_vars

\* The jobs one scheduler executes, their executions overlapping or not.
InitPersist ==
    now = 0 /\ RLIdle /\ RetryIdle /\ BatchIdle /\ SchedIdle /\ AnalyticsIdle /\ JobIdle /\ FleetIdle
        /\ PersistInit
SpecPersist ==
    InitPersist
        /\ [][PersistNext
                /\ UNCHANGED <<now, rlVars, rtVars, bVars, sVars, aVars, jVars, fVars>>]_vars

\* The uploads to one platform by the jobs one scheduler executes.
InitFleet ==
    now = 0 /\ RLIdle /\ RetryIdle /\ BatchIdle /\ SchedIdle /\ AnalyticsIdle /\ JobIdle
        /\ PersistIdle /\ FleetInit
SpecFleet ==
    InitFleet
        /\ [][FleetNext
                /\ UNCHANGED <<rlVars, rtVars, bVars, sVars, aVars, jVars, pVars>>]_vars

\* One UploadScheduler, its callers and its timers.
InitSched == RLIdle /\ RetryIdle /\ BatchIdle /\ SchedInit /\ AnalyticsIdle /\ JobIdle /\ PersistIdle /\ FleetIdle
SpecSched == InitSched /\ [][SchedNext /\ UNCHANGED <<rlVars, rtVars, bVars, aVars, jVars, pVars, fVars>>]_vars

\* One Analytics and its callers.
InitAnalytics ==
    now = 0 /\ RLIdle /\ RetryIdle /\ BatchIdle /\ SchedIdle /\ AnalyticsInit /\ JobIdle /\ PersistIdle /\ FleetIdle
SpecAnalytics ==
    InitAnalytics
        /\ [][AnalyticsNext /\ UNCHANGED <<now, rlVars, rtVars, bVars, sVars, jVars, pVars, fVars>>]_vars

----------------------------------------------------------------------------
(* C1 *)

\* The number of checkLimit() returns in the trailing window (t - w, t].
ReturnsInWindow(t) ==
    Cardinality({k \in 1..Len(acquired) : acquired[k] <= t /\ t - acquired[k] < windowMs})

\* C1: For one RateLimiter used by one sequential caller, no more than
\* maxRequests checkLimit() calls return within any trailing interval of
\* length windowMs.
C1_AtMostMaxPerWindow ==
    \A k \in 1..Len(acquired) : ReturnsInWindow(acquired[k]) <= maxRequests

----------------------------------------------------------------------------
(* C2 *)

AllThrow(log) == \A k \in 1..Len(log) : log[k].kind = "throw"

\* C2: with an upload operation that throws on every call, uploadWithRetry(clip, n)
\* invokes it exactly n times and returns a failure carrying the last error's
\* message; once a call returns a non-empty URL (call k, k <= n) no further
\* call is made and the result is a success with that URL.
C2_RetryInvocationsAndOutcome ==
    /\ \A k \in 1..Len(callLog) :
          callLog[k].kind = "url" =>
             /\ k = Len(callLog)
             /\ k <= maxRetries
             /\ upStarted = k
             /\ rtPc = "done"
             /\ rtResult = UploadResult(TRUE, callLog[k].val, "null")
    /\ (rtPc = "done" /\ AllThrow(callLog)) =>
          /\ upStarted = maxRetries
          /\ Len(callLog) = maxRetries
          /\ rtResult.success = FALSE
          /\ maxRetries >= 1 => rtResult.error = callLog[maxRetries].val

\* Three attempts all failed, the last two with different messages.
C2_Witness ==
    /\ rtPc = "done"
    /\ maxRetries = 3
    /\ Len(callLog) = 3
    /\ AllThrow(callLog)
    /\ callLog[2].val # callLog[3].val
    /\ rtResult = UploadResult(FALSE, "null", callLog[3].val)

----------------------------------------------------------------------------
(* C3, C4 *)

IsValid(i) == FileExists(clips[i].filePath) /\ clips[i].title # ""
                 /\ FileSizeMB(clips[i].filePath) <= 500

\* Clip i has been through its iteration of the clip loop.
Processed(i) == bPc = "done" \/ bI > i

FailedOf(i) == {k \in 1..Len(failed) : failed[k].clip = i}

C4_InvalidClipSkipped ==
    \A i \in 1..Len(clips) :
       (~IsValid(i) /\ Processed(i)) =>
          /\ \A j \in 1..Len(cfgPlatforms) : invoked[<<i, j>>] = 0
          /\ \A k \in 1..Len(recorded) : recorded[k].clip # i
          /\ Cardinality(FailedOf(i)) = 1
          /\ \A k \in FailedOf(i) :
                failed[k].text = clips[i].title \o ": " \o Validate(clips[i])
          /\ bPc = "done" =>
                \A i2 \in (i + 1)..Len(clips) :
                   IF IsValid(i2)
                   THEN \A j \in 1..Len(cfgPlatforms) :
                           cfgPlatforms[j] \in Uploaders => invoked[<<i2, j>>] = 1
                   ELSE Cardinality(FailedOf(i2)) = 1

\* A finished batch whose first clip has a missing file and whose second
\* clip was uploaded.
C4_Witness ==
    /\ bPc = "done"
    /\ Len(clips) = 2
    /\ ~FileExists(clips[1].filePath)
    /\ IsValid(2)
    /\ failed[1].text = "A: File not found: missing.mp4"
    /\ \E k \in 1..Len(recorded) : recorded[k].clip = 2 /\ recorded[k].success

\* The scheduler with the scheduling the code relies on: time passes, due
\* timers fire, every upload terminates (the promise of uploadClips settles)
\* and every listener returns or throws.
LiveCallTime == LiveIntervals * TickIntervalMs
LiveCall ==
    /\ ScheduleUpload \/ SchedulePlatformUploads \/ StartScheduler \/ StopScheduler
    /\ now <= LiveCallTime
    /\ Len(jobs') <= LiveMaxJobs
LiveAdvance ==
    \/ SchedAdvance /\ now' <= LiveCallTime
    \/ SchedAdvanceLate(LiveCallTime)
NextLive ==
    \/ LiveCall
    \/ TickFire
    \/ JobResolves
    \/ JobRejects
    \/ CompletedListenerReturns
    \/ CompletedListenerThrows
    \/ FailedListenerReturns
    \/ FailedListenerThrows
    \/ RetentionFires
    \/ LiveAdvance
FairLive ==
    /\ WF_<<now, jobs, isRunning, schedulerInterval, timers, ticks, stoppedAt>>(LiveAdvance)
    /\ WF_<<now, jobs, isRunning, schedulerInterval, timers, ticks, stoppedAt>>(TickFire)
    /\ WF_<<now, jobs, isRunning, schedulerInterval, timers, ticks, stoppedAt>>(RetentionFires)
    /\ WF_<<now, jobs, isRunning, schedulerInterval, timers, ticks, stoppedAt>>(JobResolves \/ JobRejects)
    /\ WF_<<now, jobs, isRunning, schedulerInterval, timers, ticks, stoppedAt>>(CompletedListenerReturns \/ CompletedListenerThrows)
    /\ WF_<<now, jobs, isRunning, schedulerInterval, timers, ticks, stoppedAt>>(FailedListenerReturns \/ FailedListenerThrows)
SpecSchedLive ==
    InitSched /\ [][NextLive /\ UNCHANGED <<rlVars, rtVars, bVars, aVars, jVars, pVars, fVars>>]_vars /\ FairLive

----------------------------------------------------------------------------
(* C5 .. C10 *)

JobIds == 1..Len(jobs)

\* C5: a job made by schedulePlatformUploads for platform P makes, when it is
\* executed, upload attempts to P only.
C5_JobUploadsToItsPlatformOnly ==
    \A k \in JobIds :
       jobs[k].forPlatform # "none" => jobs[k].uploadedTo \subseteq {jobs[k].forPlatform}

StatusSteps ==
    {<<"scheduled", "executing">>, <<"executing", "completed">>, <<"executing", "failed">>}

\* C6: a job is created 'scheduled' and its status changes only along
\* scheduled -> executing, executing -> completed, executing -> failed, so a
\* 'completed' or 'failed' job never changes status again, whatever the
\* jobCompleted and jobFailed listeners do.
C6_StatusStepsOnly ==
    [][\A k \in 1..Len(jobs') :
         IF k <= Len(jobs)
         THEN jobs'[k].status = jobs[k].status
                 \/ <<jobs[k].status, jobs'[k].status>> \in StatusSteps
         ELSE jobs'[k].status = "scheduled"]_vars

\* C7: with overlapping ticks, no tick begins a job that is not 'scheduled':
\* uploadClips is called at most once per job, a job has at most one tick
\* working on it, and it is 'scheduled' exactly while it was never started.
C7_JobStartedAtMostOnce ==
    \A k \in JobIds :
       /\ jobs[k].runs <= 1
       /\ Cardinality({t \in ticks : t.job = k}) <= 1
       /\ jobs[k].status = "scheduled" <=> jobs[k].runs = 0

\* Two ticks are awaiting uploads at once: the later tick went past the
\* earlier tick's job, which was due and 'executing', and started a later job.
C7_Witness ==
    \E t1 \in ticks, t2 \in ticks :
       /\ t1.pc = "await" /\ t2.pc = "await"
       /\ t1.now < t2.now
       /\ t1.job < t2.job
       /\ jobs[t1.job].runs = 1 /\ jobs[t2.job].runs = 1

\* C8: no job is executed early: a job whose target time lies in the future
\* is still 'scheduled' and was never handed to uploadClips, and the tick
\* working on a job observed a current time at or after its target time.
C8_NoJobStartedEarly ==
    /\ \A k \in JobIds :
          jobs[k].scheduleTime > now => jobs[k].status = "scheduled" /\ jobs[k].runs = 0
    /\ \A t \in ticks : jobs[t.job].scheduleTime <= t.now /\ t.now <= now

\* A tick passed over an earlier entry whose time lies in the future and
\* ran a later, due one.
C8_Witness ==
    \E k1 \in JobIds, k2 \in JobIds :
       /\ k2 < k1
       /\ jobs[k1].status = "completed"
       /\ jobs[k2].status = "scheduled" /\ jobs[k2].inMap
       /\ jobs[k2].scheduleTime > now

\* An interval timer invokes checkScheduledJobs in this step.
TimerFired ==
    \E tm \in timers :
       tm \notin timers' /\ [tm EXCEPT !.due = @ + TickIntervalMs] \in timers'

\* C9: after stopScheduler() has returned, and until startScheduler() is
\* called again, no timer invokes checkScheduledJobs.
C9_NoTickAfterStop == [][stoppedAt # -1 => ~TimerFired]_vars

\* The scheduler ran a job, was stopped, and at least a tick interval later a
\* job that was due at the stop is still waiting.
C9_Witness ==
    /\ stoppedAt # -1
    /\ schedulerInterval # 0
    /\ now >= stoppedAt + TickIntervalMs
    /\ \E k \in JobIds : jobs[k].status = "completed"
    /\ \E k \in JobIds : jobs[k].status = "scheduled" /\ jobs[k].scheduleTime <= stoppedAt

\* C10: after stopScheduler() has returned, no job changes from 'scheduled'
\* to 'executing' until startScheduler() is called again.
C10_NoJobStartedAfterStop ==
    [][\A k \in JobIds :
         (stoppedAt # -1 /\ jobs[k].status = "scheduled") => jobs'[k].status = "scheduled"]_vars

----------------------------------------------------------------------------
(* C11 .. C20 *)

Terminal == {"completed", "failed"}

\* Job k is waiting in the map with its target time passed while the
\* scheduler is running.
DueWhileRunning(k) ==
    /\ k <= Len(jobs)
    /\ isRunning
    /\ jobs[k].inMap /\ jobs[k].status = "scheduled" /\ jobs[k].scheduleTime <= now

\* C11: while the scheduler stays running and every upload terminates, every
\* job whose target time has passed eventually is 'completed' or 'failed';
\* and while the scheduler is running its next tick is never more than one
\* interval away.
C11_DueJobEventuallyDone ==
    /\ \A k \in 1..(MaxJobs + 1) :
          DueWhileRunning(k) ~> (~isRunning \/ (k <= Len(jobs) /\ jobs[k].status \in Terminal))
    /\ [](isRunning => \E tm \in timers :
                          tm.id = schedulerInterval /\ tm.due <= now + TickIntervalMs)

\* A job scheduled one minute before the clock was run by a tick of the
\* scheduler that has been running since.
C11_Witness ==
    \E k \in JobIds :
       /\ jobs[k].status = "completed" /\ jobs[k].forPlatform = "none"
       /\ isRunning /\ stoppedAt = -1
       /\ jobs[k].deleteAt = jobs[k].scheduleTime + 2 * TickIntervalMs + RetentionMs

\* C12: a job that is 'completed' or 'failed' stays in the map until 24 hours
\* after it was resolved and is deleted then: no entry is deleted without its
\* retention timer having come due, and every terminal job that no tick is
\* handling any more has its retention timer pending, or is deleted already.
C12_TerminalJobIsRetainedThenDeleted ==
    \A k \in JobIds :
       /\ ~jobs[k].inMap => jobs[k].status \in Terminal
       /\ (jobs[k].status \in Terminal /\ jobs[k].inMap /\ ~\E t \in ticks : t.job = k)
             => (jobs[k].deleteAt # -1 /\ now <= jobs[k].deleteAt)

\* The invocation of checkScheduledJobs that tick t belongs to ends in this
\* step.
ScanEnds(t) == t \in ticks /\ \A u \in ticks' : u.now # t.now

\* C13: when a tick's scan ends, no job whose target time was not after the
\* tick's `now` is still 'scheduled': all due jobs of a tick are attempted in
\* that tick.
C13_ScanAttemptsAllDueJobs ==
    [][\A t \in ticks :
         ScanEnds(t) => \A k \in JobIds :
                           jobs[k].scheduleTime <= t.now => jobs'[k].status # "scheduled"]_vars

\* C14: within one tick, due jobs are processed one after the other in the
\* map's insertion order: every job that is 'executing' is awaited by exactly
\* one tick, and a tick moves on to a job only from an earlier entry that it
\* has seen resolved, passing over no entry that is due and 'scheduled'.
C14_SequentialInInsertionOrder ==
    [][/\ \A t \in ticks, u \in ticks' :
            (u.now = t.now /\ u.job # t.job)
               => /\ t.job < u.job
                  /\ jobs'[t.job].status \in Terminal
                  /\ jobs[u.job].status = "scheduled" /\ jobs'[u.job].status = "executing"
                  /\ \A j \in (t.job + 1)..(u.job - 1) :
                        ~(jobs[j].inMap /\ IsDue(jobs[j], t.now))
       /\ \A u \in ticks' :
            (\A t \in ticks : t.now # u.now)
               => \A j \in 1..(u.job - 1) : ~(jobs[j].inMap /\ IsDue(jobs[j], u.now))
       /\ \A k \in 1..Len(jobs') :
            jobs'[k].status = "executing"
               <=> Cardinality({u \in ticks' : u.job = k /\ u.pc = "await"}) = 1]_vars

\* One tick has seen its first due job resolved and is awaiting its second.
C14_Witness ==
    \E t \in ticks :
       /\ ticks = {t}
       /\ t.pc = "await" /\ t.job = 2
       /\ jobs[2].status = "executing" /\ jobs[2].scheduleTime <= t.now
       /\ jobs[1].status \in Terminal /\ jobs[1].scheduleTime <= t.now
       /\ jobs[1].deleteAt = t.now + RetentionMs

\* C15: when the uploadClips call of a due job has thrown, the tick leaves
\* that job 'failed' with jobFailed emitted and its retention timer set, goes
\* on to its next due job, and the interval timer stays armed.
C15_RejectionCaughtForThatJobOnly ==
    [][\A t \in ticks :
         (jobs[t.job].error \in RejectMessages /\ \A u \in ticks' : u.job # t.job)
            => /\ jobs'[t.job].status = "failed"
               /\ jobs'[t.job].emitted = <<"jobFailed">>
               /\ jobs'[t.job].deleteAt = now + RetentionMs
               /\ NextDue(jobs, t.job, t.now) # 0
                     => jobs'[NextDue(jobs, t.job, t.now)].status = "executing"
               /\ timers' = timers]_vars

\* C16: a job that is 'executing' when the scheduler is stopped is not
\* cancelled: a tick keeps awaiting its uploads and, the uploads
\* terminating, the job eventually is 'completed' or 'failed' with
\* jobCompleted or jobFailed emitted.
C16_ExecutingJobSurvivesStop ==
    /\ \A k \in 1..(MaxJobs + 1) :
          (k <= Len(jobs) /\ stoppedAt # -1 /\ jobs[k].status = "executing")
             ~> (k <= Len(jobs) /\ jobs[k].status \in Terminal /\ jobs[k].emitted # <<>>)
    /\ [](\A k \in JobIds :
            jobs[k].status = "executing" => \E t \in ticks : t.job = k /\ t.pc = "await")

\* The scheduler was stopped while the tick that started the first job is
\* awaiting its uploads.
C16_Witness ==
    /\ stoppedAt # -1 /\ timers = {} /\ ~isRunning
    /\ Len(jobs) >= 1
    /\ jobs[1].status = "executing"
    /\ \E t \in ticks : t.job = 1 /\ t.pc = "await" /\ t.now <= stoppedAt

\* C17: schedulePlatformUploads called at `now` appends one job per entry of
\* the schedule, in the entries' order, each for the derived one-platform
\* clip and 'scheduled' for the one instant with the entry's time of day that
\* is not before now and less than 24 hours ahead: today at T when that is
\* not before now, else the following day at T.
C17_NextOccurrenceOfTimeOfDay ==
    [][(Len(jobs') > Len(jobs) /\ jobs'[Len(jobs')].forPlatform # "none")
          => \E sched \in PlatformSchedules :
                /\ Len(jobs') = Len(jobs) + Len(sched)
                /\ \A i \in 1..Len(sched) :
                     LET job == jobs'[Len(jobs) + i]
                         tod == (sched[i].hours * 60 + sched[i].minutes) * 60 * 1000
                         today == now - (now % DayMs) + tod
                     IN /\ job.forPlatform = sched[i].platform
                        /\ job.clip.platforms = <<sched[i].platform>>
                        /\ job.status = "scheduled"
                        /\ job.scheduleTime % DayMs = tod
                        /\ now <= job.scheduleTime /\ job.scheduleTime < now + DayMs
                        /\ job.scheduleTime = IF today >= now THEN today ELSE today + DayMs]_vars

\* One call made two jobs: the first entry's time of day had passed and its
\* job is for tomorrow, the second entry's had not and its job is for today.
C17_Witness ==
    /\ Len(jobs) = 2
    /\ jobs[1].forPlatform = "youtube" /\ jobs[2].forPlatform = "instagram"
    /\ jobs[1].scheduleTime = DayMs + TickIntervalMs
    /\ jobs[2].scheduleTime = 2 * TickIntervalMs
    /\ jobs[1].status = "scheduled" /\ jobs[2].status = "scheduled"

\* The attempts that threw before the last permitted one.
BackedOff == {k \in 1..Len(callLog) : callLog[k].kind = "throw" /\ k < maxRetries}

C19_OneAcquisitionPerUpload ==
    /\ rtPc = "invoke" => (acqCount = attempt /\ upStarted = attempt - 1)
    /\ rtPc # "invoke" => acqCount = upStarted
    /\ rtPc = "upload" => upStarted = attempt
    /\ upStarted <= maxRetries

\* The third attempt has completed its checkLimit() and invoked upload.
C19_Witness ==
    /\ rtPc = "upload" /\ attempt = 3
    /\ acqCount = 3 /\ upStarted = 3
    /\ callLog[1].kind = "throw" /\ callLog[2].kind = "empty"

\* C20: on an uploader whose authenticate() never succeeds, every attempt of
\* uploadWithRetry calls authenticate() once and throws '<Platform>
\* authentication failed'; the attempts are backed off like any failure, all
\* maxRetries of them are made, and the result is a failure with that message.
C20_AuthenticationFailureIsRetried ==
    ~credsValid =>
       /\ ~authenticated
       /\ authCalls = Len(callLog)
       /\ \A k \in 1..Len(callLog) :
             callLog[k] = [kind |-> "throw", val |-> AuthMessage(platformName)]
       /\ delays = [k \in 1..Len(delays) |-> (2 ^ k) * 1000]
       /\ Len(delays) = IF Len(callLog) < maxRetries THEN Len(callLog)
                        ELSE IF maxRetries = 0 THEN 0 ELSE maxRetries - 1
       /\ rtPc = "done" =>
             /\ upStarted = maxRetries /\ authCalls = maxRetries
             /\ rtResult.success = FALSE
             /\ maxRetries >= 1 => rtResult.error = AuthMessage(platformName)

\* Three attempts on the YouTube uploader with the placeholder client id.
C20_Witness ==
    /\ ~credsValid /\ platformName = "YouTube"
    /\ rtPc = "done" /\ maxRetries = 3
    /\ authCalls = 3 /\ upStarted = 3
    /\ delays = <<2000, 4000>>
    /\ rtResult = UploadResult(FALSE, "null", "YouTube authentication failed")

----------------------------------------------------------------------------
(* C21 .. C30 *)

\* C21: the UploadResult returned by uploadWithRetry has a url exactly when
\* success is true and a non-empty error description exactly when success is
\* false.
C21_UrlIffSuccessErrorIffFailure ==
    rtPc = "done" =>
       /\ rtResult.url # "null" <=> rtResult.success
       /\ rtResult.error \notin {"null", "undefined", ""} <=> ~rtResult.success

\* The uploadWithRetry outcomes uploadClips has seen for clip i on platform p.
Succeeded(i, p) ==
    \E k \in DOMAIN recorded :
        recorded[k].clip = i /\ recorded[k].platform = p /\ recorded[k].success
ExhaustedWith(i, p) ==
    {recorded[k].error : k \in {n \in DOMAIN recorded :
        recorded[n].clip = i /\ recorded[n].platform = p /\ ~recorded[n].success}}

\* The URLs returned for the first n clips on platform p, in clip order.
RECURSIVE UrlsInClipOrder(_, _)
UrlsInClipOrder(p, n) ==
    IF n = 0 THEN <<>>
    ELSE IF Succeeded(n, p) THEN Append(UrlsInClipOrder(p, n - 1), UrlFor(p, n))
    ELSE UrlsInClipOrder(p, n - 1)

C23_UnknownPlatformSkippedAlone ==
    /\ \A pr \in Pairs : cfgPlatforms[pr[2]] \notin Uploaders => invoked[pr] = 0
    /\ bPc = "done" =>
          \A pr \in Pairs :
              (cfgPlatforms[pr[2]] \in Uploaders /\ Validate(clips[pr[1]]) = "ok")
                  => invoked[pr] = 1

\* Two valid clips and the list tiktok, myspace, youtube: myspace was never
\* tried, youtube after it and the second clip were.
C23_Witness ==
    /\ bPc = "done"
    /\ Len(clips) = 2
    /\ \A i \in 1..2 : Validate(clips[i]) = "ok"
    /\ cfgPlatforms[2] \notin Uploaders
    /\ invoked[<<1, 2>>] = 0
    /\ invoked[<<1, 3>>] = 1
    /\ invoked[<<2, 2>>] = 0
    /\ invoked[<<2, 1>>] = 1

\* C24: nothing fails silently: in the value uploadClips returns, every clip of
\* the batch and every configured platform has either a URL under
\* results[platform] or an entry in failed that names the clip (and the
\* platform, unless the clip failed validation).
C24_NothingFailsSilently ==
    bPc = "done" =>
       \A i \in 1..Len(clips), p \in Range(cfgPlatforms) :
          \/ \E k \in DOMAIN bReturn.results[p] : bReturn.results[p][k] = UrlFor(p, i)
          \/ \E m \in DOMAIN bReturn.failed :
                /\ bReturn.failed[m].clip = i
                /\ \/ bReturn.failed[m].platform = p
                   \/ Validate(clips[i]) # "ok" /\ bReturn.failed[m].platform = "none"

\* <<clip, platform>> a comes before b in the order of the two loops.
LexLess(a, b) == a[1] < b[1] \/ (a[1] = b[1] /\ a[2] < b[2])

\* C25: within one uploadClips run the uploadWithRetry calls are made in
\* lexicographic order of (clip index, platform index) and one at a time: a
\* call is made only while no earlier call is still awaited, and for a pair
\* that comes after every pair already called.
C25_InvocationsInLexOrder ==
    [][invoked' # invoked =>
          /\ bPc # "retry"
          /\ bPc' = "retry"
          /\ \E pr \in Pairs :
                /\ invoked' = [invoked EXCEPT ![pr] = @ + 1]
                /\ \A q \in Pairs : invoked[q] > 0 => LexLess(q, pr)]_vars

\* The first platform of the second clip is being uploaded to after the last
\* platform of the first clip has been.
C25_Witness ==
    /\ Len(clips) = 2
    /\ bPc = "retry"
    /\ bI = 2
    /\ invoked[<<1, Len(cfgPlatforms)>>] = 1
    /\ invoked[<<2, 1>>] = 1
    /\ invoked[<<2, 2>>] = 0

\* C26: with staggering enabled the clip loop moves on from a clip that is not
\* the last one only out of the stagger sleep, whether or not that clip passed
\* validation, and the last clip is followed by no stagger sleep.
C26_StaggerAfterEveryClipButLast ==
    [][/\ (cfgStagger /\ bI' = bI + 1 /\ bI < Len(clips)) => bPc = "stagger"
       /\ bPc' = "stagger" => bI < Len(clips)]_vars

\* The positions in bEvents of the batchComplete events.
Completions == {k \in DOMAIN bEvents : bEvents[k].event = "batchComplete"}

C28_SuccessRateIsSuccessesOverAttempts ==
    \A p \in DOMAIN aData.platformPerformance :
        SameNumber(aData.platformPerformance[p].successRate,
                   Quotient(Get(aData.successfulUploads, p),
                            aData.platformPerformance[p].totalAttempts))

\* C29: what getStats() returned is an immutable copy: whatever is called
\* later, a reader finds in it the totals, counts, history and performance it
\* held when it was returned.
C29_SnapshotIsImmutable ==
    \A k \in DOMAIN aStats : Read(aStats[k].stats, aData) = aStats[k].seen

----------------------------------------------------------------------------
(* C31 .. C40 *)

\* C31: a checkLimit() that found the window full returns after a suspension
\* of exactly windowMs - (now - oldest timestamp in the window), and the
\* timestamp it stores for the acquisition is the time of that return, not
\* the time of the call.
C31_StoresReturnTimeAfterExactWait ==
    [][(rlPc = "sleeping" /\ rlPc' = "idle") =>
          /\ rlWait = windowMs - (rlNow - Min(Range(requests)))
          /\ now = rlNow + rlWait
          /\ requests'[Len(requests')] = now]_vars

\* C33: authentication is cached per uploader instance: an upload() call on an
\* instance whose authenticate() has succeeded calls authenticate() no more,
\* an upload() call on one that has not calls it exactly once, and an instance
\* that is authenticated stays so.
C33_AuthenticationCached ==
    [][/\ (rtPc = "upload" /\ rtPc' # "upload") =>
             authCalls' = IF authenticated THEN authCalls ELSE authCalls + 1
       /\ ~(rtPc = "upload" /\ rtPc' # "upload") => authCalls' = authCalls
       /\ authenticated => authenticated']_vars

\* An instance that authenticated on its first upload() has been through a
\* second and a third upload() with still one authenticate() call made.
C33_Witness ==
    /\ authenticated
    /\ authCalls = 1
    /\ Len(callLog) = 3
    /\ upStarted = 3

\* The entries of the map whose uploadClips call is being awaited.
Executing == {k \in 1..Len(jobs) : jobs[k].inMap /\ jobs[k].status = "executing"}

\* C35: at any moment at most one job of a scheduler is 'executing', also
\* when a tick fires while an earlier tick still awaits its job's uploads.
C35_AtMostOneJobExecuting ==
    Cardinality(Executing) <= 1

\* At most one interval timer is active, it is the one this.schedulerInterval
\* holds, and isRunning is true exactly when there is one.
OneTimerWhenRunning ==
    /\ Cardinality(timers) <= 1
    /\ isRunning <=> timers # {}
    /\ \A tm \in timers : tm.id = schedulerInterval

\* C39: after any sequence of startScheduler() and stopScheduler() calls at
\* most one periodic tick timer is active and isRunning is true exactly when
\* one is: a timer is created only by a startScheduler() of a scheduler that
\* is not running, and stopScheduler() before any start changes nothing.
C39_AtMostOneTimer ==
    [][/\ OneTimerWhenRunning
       /\ OneTimerWhenRunning'
       /\ (\E tm \in timers' : \A old \in timers : old.id # tm.id)
             => ~isRunning /\ isRunning' /\ timers = {}
       /\ (schedulerInterval = 0 /\ schedulerInterval' = 0)
             => ~isRunning' /\ timers' = {}]_vars

\* startScheduler() after a stopScheduler() has installed a second timer, the
\* only one active.
C39_Witness ==
    /\ isRunning
    /\ schedulerInterval = 2
    /\ timers # {}
    /\ \A tm \in timers : tm.id = 2

\* The sum of the values of a counter object.
RECURSIVE SumOf(_)
SumOf(f) ==
    IF DOMAIN f = {} THEN 0
    ELSE LET p == CHOOSE q \in DOMAIN f : TRUE
         IN  f[p] + SumOf([q \in DOMAIN f \ {p} |-> f[q]])

\* The platforms recordUpload has been called for.
Recorded ==
    DOMAIN aData.successfulUploads \cup DOMAIN aData.failedUploads
        \cup DOMAIN aData.platformPerformance

\* C40: starting from an empty analytics state, after any sequence of
\* recordUpload and addUploadBatch calls totalUploads is the number of
\* recordUpload calls and the sum over the platforms of successfulUploads[p] +
\* failedUploads[p]; for every platform totalAttempts is successfulUploads[p]
\* + failedUploads[p] and its commonErrors counts sum to at most
\* failedUploads[p]; addUploadBatch adds to the history and changes none of
\* these counters.
C40_CountersAddUp ==
    /\ aData.totalUploads = aMutations - Len(aData.uploadHistory)
    /\ aData.totalUploads = SumOf(aData.successfulUploads) + SumOf(aData.failedUploads)
    /\ \A p \in Recorded :
          /\ p \in DOMAIN aData.platformPerformance
          /\ aData.platformPerformance[p].totalAttempts =
                Get(aData.successfulUploads, p) + Get(aData.failedUploads, p)
          /\ SumOf(aData.platformPerformance[p].commonErrors)
                <= Get(aData.failedUploads, p)

\* A failure of youtube, a success of tiktok and a batch have been recorded.
C40_Witness ==
    /\ aData.totalUploads = 2
    /\ aMutations = 3
    /\ Len(aData.uploadHistory) = 1
    /\ Get(aData.failedUploads, "youtube") = 1
    /\ Get(aData.successfulUploads, "tiktok") = 1
    /\ "youtube" \in DOMAIN aData.platformPerformance
    /\ SumOf(aData.platformPerformance["youtube"].commonErrors) = 1

\* How many elements of the sequence s satisfy Test.
CountIn(s, Test(_)) == Cardinality({k \in DOMAIN s : Test(s[k])})

\* C37: when uploadClips returns, every clip that passed validation and every
\* configured platform with an uploader has exactly one outcome: one URL in
\* results[platform] with one recordUpload(platform, true), or one entry in
\* failed with one recordUpload(platform, false), never both and never
\* neither, whatever the uploadSuccess and uploadFailed listeners do.
C37_ExactlyOneOutcome ==
    bPc = "done" =>
       \A i \in 1..Len(clips), p \in Range(cfgPlatforms) \cap Uploaders :
          Validate(clips[i]) = "ok" =>
             LET urls == CountIn(results[p], LAMBDA u : u = UrlFor(p, i))
                 entries == CountIn(failed, LAMBDA f : f.clip = i /\ f.platform = p)
                 successes == CountIn(recorded,
                                 LAMBDA c : c.clip = i /\ c.platform = p /\ c.success)
                 failures == CountIn(recorded,
                                 LAMBDA c : c.clip = i /\ c.platform = p /\ ~c.success)
             IN  \/ urls = 1 /\ successes = 1 /\ entries = 0 /\ failures = 0
                 \/ urls = 0 /\ successes = 0 /\ entries = 1 /\ failures = 1

\* C34: the observers subscribed on a SocialMediaUploader are notified of
\* every upload its scheduler's jobs cause: each uploadSuccess, uploadFailed
\* and batchComplete event of a job's batch is delivered to them.
C34_UploadEventsReachObservers ==
    jObserved = bEvents

\* C38: a job is 'failed' only when uploadClips or a jobCompleted listener
\* threw; when neither did, also for a clip that fails validation or whose
\* uploads fail on every platform, the job is 'completed', job.result has
\* status 'completed' and lists the failures, and jobCompleted and no
\* jobFailed has been emitted for it.
C38_FailedOnlyOnThrow ==
    /\ jStatus = "failed" =>
          \/ bPc = "thrown" /\ jError \in RejectMessages
          \/ /\ bPc = "done"
             /\ jError = "listener error"
             /\ jEmitted = <<"jobCompleted", "jobFailed">>
    /\ (bPc = "done" /\ jPc # "await" /\ jError = "none") =>
          /\ jStatus = "completed"
          /\ jResult.status = "completed"
          /\ jResult.failed = failed
          /\ jEmitted = <<"jobCompleted">>
          /\ Validate(clips[1]) # "ok" =>
                \E m \in DOMAIN jResult.failed :
                    jResult.failed[m].clip = 1 /\ jResult.failed[m].platform = "none"
          /\ Validate(clips[1]) = "ok" =>
                \A p \in Range(cfgPlatforms) \cap Uploaders :
                    jResult.results[p] = <<>> =>
                        \E m \in DOMAIN jResult.failed : jResult.failed[m].platform = p

\* The job of a valid clip whose uploads failed on all three platforms has
\* ended 'completed', with the three failures in job.result.failed.
C38_Witness ==
    /\ jPc = "end"
    /\ jStatus = "completed"
    /\ Validate(clips[1]) = "ok"
    /\ cfgPlatforms = DefaultPlatforms
    /\ \A p \in Range(cfgPlatforms) : jResult.results[p] = <<>>
    /\ Len(jResult.failed) = 3
    /\ jEmitted = <<"jobCompleted">>

\* Every job that was started has returned from uploadClips.
AllJobsEnded == pRuns # <<>> /\ \A r \in DOMAIN pRuns : pRuns[r].pc = "done"

\* C36: no analytics update is lost: once the jobs one scheduler executed
\* have ended, overlapping or not, the persisted analytics state has
\* totalUploads equal to the number of recordUpload calls all jobs made and
\* one history entry for every batch.
C36_NoAnalyticsUpdateLost ==
    AllJobsEnded =>
       /\ pFile.exists
       /\ pFile.data.totalUploads = pRecords
       /\ Len(pFile.data.uploadHistory) = pBatches

\* The upload attempts that started in the trailing window (t - w, t].
StartsInWindow(t) ==
    Cardinality({k \in DOMAIN fStarts :
                    fStarts[k] <= t /\ t - fStarts[k] < LimiterWindowMs})

\* C32: the upload attempts to one platform are limited across all jobs one
\* scheduler executes: no more than maxRequests attempts to the platform
\* start within any trailing windowMs.
C32_SharedLimitAcrossJobs ==
    \A k \in DOMAIN fStarts : StartsInWindow(fStarts[k]) <= fMaxRequests

====
